---------------------------- MODULE Spec2Model ----------------------------
(***************************************************************************)
(* Model of app.py: the /recognize request handler, the threshold test on  *)
(* the best match of each result-set, and the attendance ledger            *)
(* (attendance.csv) with its read-scan-then-append check-in.               *)
(*                                                                         *)
(* Text is modelled as a sequence of tokens.  A token is either one of the *)
(* characters that matter to the csv and path functions ("," the quote     *)
(* character, the line terminator, "/" and ".") or a chunk of ordinary     *)
(* characters.  Distances are in hundredths (0.40 is 40).                  *)
(***************************************************************************)
EXTENDS Integers, Sequences, FiniteSets, TLC

\* ------------------------------------------------------------- bounds
MaxRecords == 1
MaxFaces == 2
MaxClock == 1

\* --------------------------------------------------- program constants
RECOGNITION_THRESHOLD == 40
DefaultDistance == 10000

Workers == {"w1", "w2"}
MainWorker == "w1"

\* ------------------------------------------------------------ helpers
Range(s) == {s[k] : k \in 1..Len(s)}

IsPrefix(s, t) == Len(s) <= Len(t) /\ SubSeq(t, 1, Len(s)) = s

RECURSIVE Perms(_)
Perms(S) ==
    IF S = {} THEN {<<>>}
    ELSE UNION {{<<x>> \o p : p \in Perms(S \ {x})} : x \in S}

\* ------------------------------------------------------------ csv text
COMMA == ","
QUOTE == "\""
CRLF == "\r\n"

\* csv.writer, QUOTE_MINIMAL: a field holding the delimiter, the quote
\* character or a line terminator is written between quotes, with every
\* quote character in it doubled.
RECURSIVE DoubleQuotes(_)
DoubleQuotes(f) ==
    IF f = <<>> THEN <<>>
    ELSE (IF Head(f) = QUOTE THEN <<QUOTE, QUOTE>> ELSE <<Head(f)>>)
         \o DoubleQuotes(Tail(f))

NeedsQuoting(f) == \E k \in 1..Len(f) : f[k] \in {COMMA, QUOTE, CRLF}

WriteField(f) ==
    IF NeedsQuoting(f) THEN <<QUOTE>> \o DoubleQuotes(f) \o <<QUOTE>> ELSE f

RECURSIVE JoinFields(_)
JoinFields(row) ==
    IF row = <<>> THEN <<>>
    ELSE IF Len(row) = 1 THEN WriteField(row[1])
    ELSE WriteField(row[1]) \o <<COMMA>> \o JoinFields(Tail(row))

writerow(row) == JoinFields(row) \o <<CRLF>>

\* csv.reader: the parser's state machine over the text.  st is the parser
\* state, field the field being read, row the fields of the record being
\* read, rows the records read so far.
RECURSIVE ParseCsv(_, _, _, _, _)
ParseCsv(text, st, field, row, rows) ==
    IF text = <<>> THEN
        IF st = "START_RECORD" THEN rows ELSE Append(rows, Append(row, field))
    ELSE
        LET c == Head(text)
            rest == Tail(text)
        IN  CASE st = "START_RECORD" ->
                   IF c = CRLF THEN ParseCsv(rest, "START_RECORD", <<>>, <<>>, Append(rows, <<>>))
                   ELSE IF c = QUOTE THEN ParseCsv(rest, "IN_QUOTED_FIELD", <<>>, <<>>, rows)
                   ELSE IF c = COMMA THEN ParseCsv(rest, "START_FIELD", <<>>, <<<<>>>>, rows)
                   ELSE ParseCsv(rest, "IN_FIELD", <<c>>, <<>>, rows)
              [] st = "START_FIELD" ->
                   IF c = CRLF THEN ParseCsv(rest, "START_RECORD", <<>>, <<>>, Append(rows, Append(row, <<>>)))
                   ELSE IF c = QUOTE THEN ParseCsv(rest, "IN_QUOTED_FIELD", <<>>, row, rows)
                   ELSE IF c = COMMA THEN ParseCsv(rest, "START_FIELD", <<>>, Append(row, <<>>), rows)
                   ELSE ParseCsv(rest, "IN_FIELD", <<c>>, row, rows)
              [] st = "IN_FIELD" ->
                   IF c = CRLF THEN ParseCsv(rest, "START_RECORD", <<>>, <<>>, Append(rows, Append(row, field)))
                   ELSE IF c = COMMA THEN ParseCsv(rest, "START_FIELD", <<>>, Append(row, field), rows)
                   ELSE ParseCsv(rest, "IN_FIELD", Append(field, c), row, rows)
              [] st = "IN_QUOTED_FIELD" ->
                   IF c = QUOTE THEN ParseCsv(rest, "QUOTE_IN_QUOTED_FIELD", field, row, rows)
                   ELSE ParseCsv(rest, "IN_QUOTED_FIELD", Append(field, c), row, rows)
              [] OTHER ->   \* QUOTE_IN_QUOTED_FIELD
                   IF c = QUOTE THEN ParseCsv(rest, "IN_QUOTED_FIELD", Append(field, QUOTE), row, rows)
                   ELSE IF c = COMMA THEN ParseCsv(rest, "START_FIELD", <<>>, Append(row, field), rows)
                   ELSE IF c = CRLF THEN ParseCsv(rest, "START_RECORD", <<>>, <<>>, Append(rows, Append(row, field)))
                   ELSE ParseCsv(rest, "IN_FIELD", Append(field, c), row, rows)

reader(text) == ParseCsv(text, "START_RECORD", <<>>, <<>>, <<>>)

HeaderRow == <<<<"Name">>, <<"Date">>, <<"Time">>>>

\* ------------------------------------------------------- date and time
Digits == <<"0", "1", "2", "3", "4", "5", "6", "7", "8", "9">>

Pad2(n) == <<Digits[((n \div 10) % 10) + 1], Digits[(n % 10) + 1]>>

\* The clock counts the days from the first of a month; the requests of day
\* d are served clock minutes after nine.
\* datetime.date.today().strftime("%Y-%m-%d")
FormatDate(clock) == <<"2024-01-">> \o Pad2(clock + 1)

\* datetime.datetime.now().strftime("%H:%M:%S")
FormatTime(clock) == <<"09:">> \o Pad2(clock % 60) \o <<":00">>

\* ------------------------------------------------------ identity paths
SLASH == "/"
DOT == "."

RECURSIVE LastIndexOf(_, _)
LastIndexOf(s, c) ==
    IF s = <<>> THEN 0
    ELSE IF s[Len(s)] = c THEN Len(s)
    ELSE LastIndexOf(SubSeq(s, 1, Len(s) - 1), c)

\* os.path.basename: what follows the last "/".
basename(p) == SubSeq(p, LastIndexOf(p, SLASH) + 1, Len(p))

\* os.path.splitext(...)[0]: the name without its last extension; a dot
\* that only leads the name starts no extension.
RECURSIVE LeadingDots(_)
LeadingDots(s) ==
    IF s # <<>> /\ Head(s) = DOT THEN 1 + LeadingDots(Tail(s)) ELSE 0

stem(filename) ==
    LET d == LastIndexOf(filename, DOT)
    IN  IF d > LeadingDots(filename) THEN SubSeq(filename, 1, d - 1) ELSE filename

NameOfPath(p) == stem(basename(p))

IdentityPaths ==
    { <<"known_faces", "/", "alice", ".", "jpg">>,
      <<"known_faces", "/", "v", ".", "2", "/", "alice", ".", "png">>,
      <<"known_faces", "/", "Doe", ",", "\"", "JD", "\"", ".", "jpg">> }

Names == {NameOfPath(p) : p \in IdentityPaths}


\* ------------------------------------------- results of DeepFace.find
\* A candidate row (df.iloc[0]) is a function from the fields it carries to
\* their values.  A result-set (df) is its ranked rows; only the first is
\* read, so a result-set is <<>> (df.empty) or <<row>>.
DistanceFields == {"distance", "VGG-Face_cosine", "cosine"}
DistanceValues == {RECOGNITION_THRESHOLD, RECOGNITION_THRESHOLD + 1}

DistanceRows == UNION {[S -> DistanceValues] : S \in SUBSET DistanceFields}

Rows ==
    DistanceRows \cup {("identity" :> p) @@ d : p \in IdentityPaths, d \in DistanceRows}

Frames == {<<>>} \cup {<<r>> : r \in Rows}

\* DistanceOf with the fields tried in the reverse order.
DistanceOfCosineFirst(best_match) ==
    IF "cosine" \in DOMAIN best_match THEN best_match["cosine"]
    ELSE IF "VGG-Face_cosine" \in DOMAIN best_match THEN best_match["VGG-Face_cosine"]
    ELSE IF "distance" \in DOMAIN best_match THEN best_match["distance"]
    ELSE DefaultDistance

\* lines 129-136: the distance of the best match
DistanceOf(best_match) ==
    IF "distance" \in DOMAIN best_match THEN best_match["distance"]
    ELSE IF "VGG-Face_cosine" \in DOMAIN best_match THEN best_match["VGG-Face_cosine"]
    ELSE IF "cosine" \in DOMAIN best_match THEN best_match["cosine"]
    ELSE DefaultDistance

\* CloseEnough with a strict comparison.
CloseEnoughStrict(distance) == distance < RECOGNITION_THRESHOLD

\* line 139
CloseEnough(distance) == distance <= RECOGNITION_THRESHOLD

\* lines 124-143, one iteration of the loop over result_dfs: the outcome is
\* the new recognized_names, or raised when best_match['identity'] fails.
ProcessFrame(df, recognized_names) ==
    IF df = <<>> THEN [raised |-> FALSE, names |-> recognized_names]
    ELSE LET best_match == df[1]
         IN  IF CloseEnough(DistanceOf(best_match))
             THEN IF "identity" \in DOMAIN best_match
                  THEN [raised |-> FALSE,
                        names |-> Append(recognized_names, NameOfPath(best_match["identity"]))]
                  ELSE [raised |-> TRUE, names |-> recognized_names]
             ELSE [raised |-> FALSE, names |-> recognized_names]

\* ---------------------------------------- results of DeepFace.analyze
Emotions == {"happy", "neutral"}

AnalysisOutcomes ==
    {[kind |-> "raises", value |-> <<>>], [kind |-> "not_a_list", value |-> <<>>],
     [kind |-> "list", value |-> <<>>]}
    \cup {[kind |-> "list", value |-> <<e>>] : e \in Emotions}

\* lines 97-109
EmotionOf(analysis) ==
    IF analysis.kind = "list" /\ Len(analysis.value) > 0 THEN analysis.value[1]
    ELSE "neutral"

\* ------------------------------------------------------------ responses
ErrorBody(msg) == [error |-> msg]
ResultBody(new, present, emotion) ==
    [new_check_ins |-> new, already_present |-> present, emotion |-> emotion]
NoBody == [none |-> TRUE]

\* line 86
MissingImageResponse == [status |-> 400, body |-> ErrorBody("No image data provided")]
\* line 94
DecodeErrorResponse == [status |-> 400, body |-> ErrorBody("Could not decode image")]
\* line 148
FindFailedResponse == [status |-> 200, body |-> ResultBody(<<>>, <<>>, "neutral")]
\* an exception that no handler of the route catches
ServerErrorResponse == [status |-> 500, body |-> ErrorBody("Internal Server Error")]

\* ---------------------------------------------------------- the ledger
\* ScanRows without the duplicate check.
ScanRowsSkipped(rows, name, today) == "absent"

\* ScanRows comparing the name only.
RECURSIVE ScanRowsNameOnly(_, _, _)
ScanRowsNameOnly(rows, name, today) ==
    IF rows = <<>> THEN "absent"
    ELSE IF Len(Head(rows)) = 0 THEN "IndexError"
    ELSE IF Head(rows)[1] = name THEN "found"
    ELSE ScanRowsNameOnly(Tail(rows), name, today)

\* lines 62-66: the scan of the rows for (name, today).  row[0] and row[1]
\* raise IndexError on a row that is too short.
RECURSIVE ScanRows(_, _, _)
ScanRows(rows, name, today) ==
    IF rows = <<>> THEN "absent"
    ELSE LET row == Head(rows)
         IN  IF Len(row) = 0 THEN "IndexError"
             ELSE IF row[1] = name
                  THEN IF Len(row) < 2 THEN "IndexError"
                       ELSE IF row[2] = today THEN "found"
                       ELSE ScanRows(Tail(rows), name, today)
                  ELSE ScanRows(Tail(rows), name, today)

\* InitializedFile without the test that the file exists.
InitializedFileTruncates(exists, content) == writerow(HeaderRow)

\* lines 20-23: the content of the file after module initialization
InitializedFile(exists, content) ==
    IF ~exists THEN writerow(HeaderRow) ELSE content

\* lines 69-71: the content of the file after the append
AppendedFile(content, name, today, current_time) ==
    content \o writerow(<<name, today, current_time>>)

\* --------------------------------------------------------------- state
VARIABLES
    up,        \* the server process is running (module initialization is done)
    exists,    \* os.path.exists(ATTENDANCE_FILE)
    file,      \* the text of attendance.csv
    now,       \* the wall clock
    req,       \* per handler thread: the request it serves and its local variables
    written,   \* history: the records appended so far, in order
    reloaded   \* history: the process started on a file that held records, and has
               \* appended none since

vars == <<up, exists, file, now, req, written, reloaded>>

Dates == {FormatDate(clock) : clock \in 0..MaxClock}

\* The local variables of recognize_face and of the check_and_log_attendance
\* call it is in.  pc is the handler's position, image what the body
\* carried, raised whether the except branch of the match (line 145) was
\* taken, ledger0 the text of the file when the request arrived.
IdleFrame ==
    [pc |-> "idle", image |-> "none", dominant_emotion |-> "neutral",
     raised |-> FALSE, faces |-> 0, best_match |-> <<>>,
     recognized_names |-> <<>>, unique_names |-> <<>>, idx |-> 0,
     today |-> <<>>, current_time |-> <<>>,
     new_check_ins |-> <<>>, already_present |-> <<>>,
     status |-> 0, body |-> NoBody, ledger0 |-> <<>>]

Done(frame, response) ==
    [frame EXCEPT !.pc = "done", !.status = response.status, !.body = response.body,
                  !.today = <<>>, !.current_time = <<>>]

Init ==
    /\ up = FALSE
    /\ exists = FALSE
    /\ file = <<>>
    /\ now = 0
    /\ req = [w \in Workers |-> IdleFrame]
    /\ written = <<>>
    /\ reloaded = FALSE

\* ------------------------------------------------------------- actions
\* lines 19-23: the process starts and the module is initialized.
Start ==
    /\ ~up
    /\ up' = TRUE
    /\ exists' = TRUE
    /\ file' = InitializedFile(exists, file)
    /\ reloaded' = (written # <<>>)
    /\ UNCHANGED <<now, req, written>>

\* The process stops; the requests it was serving are lost.
Stop ==
    /\ up
    /\ up' = FALSE
    /\ req' = [w \in Workers |-> IdleFrame]
    /\ UNCHANGED <<exists, file, now, written, reloaded>>

\* Time passes.
Tick ==
    /\ now < MaxClock
    /\ now' = now + 1
    /\ UNCHANGED <<up, exists, file, req, written, reloaded>>

\* ReceivedFrame going on after a decode error.
ReceivedFrameNoDecodeCheck(ledger, image, analysis, findRaises) ==
    LET fresh == [IdleFrame EXCEPT !.ledger0 = ledger, !.image = image] IN
    IF image = "missing" THEN Done(fresh, MissingImageResponse)
    ELSE LET analysed == [fresh EXCEPT !.dominant_emotion = EmotionOf(analysis)] IN
         IF findRaises
         THEN Done([analysed EXCEPT !.raised = TRUE], FindFailedResponse)
         ELSE [analysed EXCEPT !.pc = "match"]

\* ReceivedFrame with DeepFace.find called outside the try block.
ReceivedFrameFindUncaught(ledger, image, analysis, findRaises) ==
    LET fresh == [IdleFrame EXCEPT !.ledger0 = ledger, !.image = image] IN
    IF image = "missing" THEN Done(fresh, MissingImageResponse)
    ELSE IF image = "undecodable" THEN Done(fresh, DecodeErrorResponse)
    ELSE LET analysed == [fresh EXCEPT !.dominant_emotion = EmotionOf(analysis)] IN
         IF findRaises
         THEN Done([analysed EXCEPT !.raised = TRUE], ServerErrorResponse)
         ELSE [analysed EXCEPT !.pc = "match"]

\* lines 84-121: a request arrives; the body is parsed, the image decoded,
\* the emotion estimated and DeepFace.find called.
ReceivedFrame(ledger, image, analysis, findRaises) ==
    LET fresh == [IdleFrame EXCEPT !.ledger0 = ledger, !.image = image] IN
    IF image = "missing" THEN Done(fresh, MissingImageResponse)
    ELSE IF image = "undecodable" THEN Done(fresh, DecodeErrorResponse)
    ELSE LET analysed == [fresh EXCEPT !.dominant_emotion = EmotionOf(analysis)] IN
         IF findRaises
         THEN Done([analysed EXCEPT !.raised = TRUE], FindFailedResponse)
         ELSE [analysed EXCEPT !.pc = "match"]

Receive(w) ==
    /\ up
    /\ req[w].pc \in {"idle", "done"}
    /\ \E image \in {"missing", "undecodable", "ok"}, analysis \in AnalysisOutcomes,
          findRaises \in BOOLEAN :
          req' = [req EXCEPT ![w] = ReceivedFrame(file, image, analysis, findRaises)]
    /\ UNCHANGED <<up, exists, file, now, written, reloaded>>

\* MatchedFrame with the exception caught inside the loop, which goes on.
MatchedFrameSwallows(frame, df, observed) ==
    LET out == ProcessFrame(df, frame.recognized_names)
        seen == [frame EXCEPT !.faces = @ + 1,
                              !.best_match = IF observed THEN df ELSE <<>>]
    IN  IF out.raised
        THEN [seen EXCEPT !.raised = TRUE]
        ELSE [seen EXCEPT !.recognized_names = out.names]

\* lines 123-148: the next result-set of result_dfs is processed.  The frame
\* keeps best_match, which the code never reads again, only when observed.
MatchedFrame(frame, df, observed) ==
    LET out == ProcessFrame(df, frame.recognized_names)
        seen == [frame EXCEPT !.faces = @ + 1,
                              !.best_match = IF observed THEN df ELSE <<>>]
    IN  IF out.raised
        THEN Done([seen EXCEPT !.raised = TRUE], FindFailedResponse)
        ELSE [seen EXCEPT !.recognized_names = out.names]

MatchStep(w, observed) ==
    /\ up
    /\ req[w].pc = "match"
    /\ req[w].faces < MaxFaces
    /\ \E df \in Frames : req' = [req EXCEPT ![w] = MatchedFrame(req[w], df, observed)]
    /\ UNCHANGED <<up, exists, file, now, written, reloaded>>

Match(w) == MatchStep(w, FALSE)

ObservedMatch(w) == MatchStep(w, TRUE)

\* UniqueOrders without set().
UniqueOrdersNoSet(recognized_names) == {recognized_names}

\* lines 150-153: result_dfs is exhausted; list(set(recognized_names)), in
\* whatever order the set gives.
UniqueOrders(recognized_names) == Perms(Range(recognized_names))

Dedup(w) ==
    /\ up
    /\ req[w].pc = "match"
    /\ \E order \in UniqueOrders(req[w].recognized_names) :
          req' = [req EXCEPT ![w] = [@ EXCEPT !.pc = "log", !.unique_names = order,
                                              !.idx = 1, !.best_match = <<>>]]
    /\ UNCHANGED <<up, exists, file, now, written, reloaded>>

\* lines 155-156 and 58-66: check_and_log_attendance(name) is called for the
\* next name; it reads the date and the time, then scans the file.
ScannedFrame(frame, found, today, current_time) ==
    IF found = "found"
    THEN [frame EXCEPT !.already_present = Append(@, frame.unique_names[frame.idx]),
                       !.idx = @ + 1]
    ELSE IF found = "absent"
    THEN [frame EXCEPT !.pc = "append", !.today = today, !.current_time = current_time]
    ELSE Done(frame, ServerErrorResponse)

Scan(w) ==
    /\ up
    /\ req[w].pc = "log"
    /\ req[w].idx <= Len(req[w].unique_names)
    /\ LET name == req[w].unique_names[req[w].idx]
           today == FormatDate(now)
           current_time == FormatTime(now)
           found == IF exists THEN ScanRows(reader(file), name, today)
                    ELSE "FileNotFoundError"
       IN  req' = [req EXCEPT ![w] = ScannedFrame(req[w], found, today, current_time)]
    /\ UNCHANGED <<up, exists, file, now, written, reloaded>>

\* lines 68-72 and 157-158: the row is appended and the call returns "success".
AppendRow(w) ==
    /\ up
    /\ req[w].pc = "append"
    /\ LET name == req[w].unique_names[req[w].idx] IN
       /\ file' = AppendedFile(file, name, req[w].today, req[w].current_time)
       /\ written' = Append(written, [name |-> name, today |-> req[w].today,
                                      current_time |-> req[w].current_time])
       /\ req' = [req EXCEPT ![w] = [@ EXCEPT !.pc = "log", !.idx = @ + 1,
                                              !.today = <<>>, !.current_time = <<>>,
                                              !.new_check_ins = Append(@, name)]]
    /\ exists' = TRUE
    /\ reloaded' = FALSE
    /\ UNCHANGED <<up, now>>

\* lines 162-166
Respond(w) ==
    /\ up
    /\ req[w].pc = "log"
    /\ req[w].idx > Len(req[w].unique_names)
    /\ req' = [req EXCEPT ![w] =
                  Done(@, [status |-> 200,
                           body |-> ResultBody(@.new_check_ins, @.already_present,
                                               @.dominant_emotion)])]
    /\ UNCHANGED <<up, exists, file, now, written, reloaded>>

\* A threaded (or multi-worker) server: the handlers interleave.  Requests
\* stop arriving once the ledger holds MaxRecords records.
Next ==
    \/ Start
    \/ Stop
    \/ Tick
    \/ \E w \in Workers :
          \/ Len(written) < MaxRecords /\ Receive(w)
          \/ Match(w)
          \/ Dedup(w)
          \/ Scan(w)
          \/ AppendRow(w)
          \/ Respond(w)

Spec == Init /\ [][Next]_vars

\* A single-threaded server: one request at a time.
SeqNext ==
    \/ Start
    \/ Stop
    \/ Tick
    \/ Receive(MainWorker)
    \/ Match(MainWorker)
    \/ Dedup(MainWorker)
    \/ Scan(MainWorker)
    \/ AppendRow(MainWorker)
    \/ Respond(MainWorker)

SeqSpec == Init /\ [][SeqNext]_vars

\* The handling of one request from the return of DeepFace.find on, with the
\* best match of the result-set in hand kept in view.
MatchInit ==
    /\ up = TRUE
    /\ exists = TRUE
    /\ file = writerow(HeaderRow)
    /\ now \in 0..MaxClock
    /\ written = <<>>
    /\ reloaded = FALSE
    /\ \E analysis \in AnalysisOutcomes :
          req = [w \in Workers |->
                    IF w = MainWorker
                    THEN ReceivedFrame(writerow(HeaderRow), "ok", analysis, FALSE)
                    ELSE IdleFrame]

MatchNext ==
    \/ ObservedMatch(MainWorker)
    \/ Dedup(MainWorker)
    \/ Scan(MainWorker)
    \/ AppendRow(MainWorker)
    \/ Respond(MainWorker)

MatchSpec == MatchInit /\ [][MatchNext]_vars

\* ------------------------------------------------------ the properties
NoDuplicates(s) == \A j, k \in 1..Len(s) : s[j] = s[k] => j = k

\* The rows of the ledger as a reader of the file sees them.
Ledger == reader(file)

\* How many of the rows are records of (name, date).
Count(rows, name, date) ==
    LET all == rows
    IN  Cardinality({k \in 1..Len(all) :
                        /\ Len(all[k]) >= 2
                        /\ all[k][1] = name
                        /\ all[k][2] = date})

RowOf(record) == <<record.name, record.today, record.current_time>>

Recorded(name, date) ==
    \E k \in 1..Len(written) : written[k].name = name /\ written[k].today = date

\* This step is the return of a check_and_log_attendance call of handler w.
CallReturns(w) ==
    /\ req[w].pc \in {"log", "append"}
    /\ req'[w].pc = "log"
    /\ req'[w].idx = req[w].idx + 1

CallName(w) == req[w].unique_names[req[w].idx]

CallDate(w) == IF req[w].pc = "append" THEN req[w].today ELSE FormatDate(now)

ReturnsSuccess(w) ==
    /\ req'[w].new_check_ins = Append(req[w].new_check_ins, CallName(w))
    /\ req'[w].already_present = req[w].already_present

ReturnsAlreadyCheckedIn(w) ==
    /\ req'[w].already_present = Append(req[w].already_present, CallName(w))
    /\ req'[w].new_check_ins = req[w].new_check_ins

\* The response of a request that went through the logging loop.
Answered(w) == req[w].pc = "done" /\ req[w].image = "ok" /\ ~req[w].raised

\* C1: in every reachable state, also with /recognize requests interleaving
\* their read-scan and append steps, the ledger holds at most one record for
\* each (identity, date) pair.
C1_AtMostOneRecordPerIdentityAndDate ==
    LET rows == Ledger
    IN  \A name \in Names, date \in Dates : Count(rows, name, date) <= 1

\* C2: check-ins of (I, D) that do not overlap: the call that finds no record
\* returns success and leaves exactly one record, every later call returns
\* already_checked_in and leaves the file as it is, so exactly one record of
\* (I, D) exists afterwards; the response lists the names as the calls
\* returned them.
C2_TwiceIsSuccessThenAlreadyCheckedIn ==
    /\ [](\A w \in Workers :
             Answered(w) =>
                req[w].body = ResultBody(req[w].new_check_ins, req[w].already_present,
                                         req[w].dominant_emotion))
    /\ [][\A w \in Workers :
             CallReturns(w) =>
                LET before == Count(reader(file), CallName(w), CallDate(w))
                    after == Count(reader(file'), CallName(w), CallDate(w))
                IN  IF before = 0
                    THEN ReturnsSuccess(w) /\ after = 1
                    ELSE ReturnsAlreadyCheckedIn(w) /\ file' = file /\ before = 1]_vars

\* A repeated request: its only name was already checked in today.
C2_Witness ==
    \E w \in Workers, name \in Names :
       /\ Answered(w)
       /\ req[w].body.already_present = <<name>>
       /\ req[w].body.new_check_ins = <<>>
       /\ Count(Ledger, name, FormatDate(now)) = 1

\* C3: a check-in of I on date D returns already_checked_in exactly when a
\* record (I, D) has been written, whoever wrote it and whether or not the
\* process has restarted since, and success otherwise, appending the one row
\* (I, D, time); the file read back holds exactly the records written.
C3_AlreadyCheckedInIffRecorded ==
    /\ [](exists => Ledger = <<HeaderRow>> \o [k \in 1..Len(written) |-> RowOf(written[k])])
    /\ [][\A w \in Workers :
             CallReturns(w) =>
                IF Recorded(CallName(w), CallDate(w))
                THEN /\ ReturnsAlreadyCheckedIn(w)
                     /\ written' = written
                     /\ file' = file
                ELSE /\ ReturnsSuccess(w)
                     /\ written' = Append(written, [name |-> CallName(w),
                                                    today |-> CallDate(w),
                                                    current_time |-> req[w].current_time])
                     /\ file' = file \o writerow(<<CallName(w), CallDate(w),
                                                   req[w].current_time>>)]_vars

\* After a restart, on a day on which both names have been checked in, a
\* request finds the record of a name that also has a record of another day.
C3_Witness ==
    \E w \in Workers, i, j \in Names :
       /\ reloaded
       /\ Answered(w)
       /\ i # j
       /\ req[w].already_present = <<j>>
       /\ \A d \in Dates : Recorded(j, d)
       /\ Recorded(i, FormatDate(now))

\* C4: when the identity match raises, in the call or while a result-set is
\* processed, the response is 200 with empty lists and emotion "neutral" and
\* the request makes no check-in: the file is as it was when it arrived.
C4_MatchFailureFailsSoft ==
    \A w \in Workers :
       req[w].raised =>
          /\ req[w].pc = "done"
          /\ req[w].status = 200
          /\ req[w].body = ResultBody(<<>>, <<>>, "neutral")
          /\ req[w].idx = 0
          /\ file = req[w].ledger0

\* The match raised after a name had been accepted and the emotion estimated.
C4_Witness ==
    \E w \in Workers :
       /\ req[w].raised
       /\ req[w].recognized_names # <<>>
       /\ req[w].dominant_emotion = "happy"
       /\ written # <<>>

C6_OneCheckInPerIdentityPerRequest ==
    \A w \in Workers :
       req[w].pc \in {"log", "append"} \/ Answered(w) =>
          LET passed == SubSeq(req[w].unique_names, 1, req[w].idx - 1)
              listed == req[w].new_check_ins \o req[w].already_present
              before == Len(reader(req[w].ledger0))
              rows == Ledger
          IN  /\ NoDuplicates(req[w].unique_names)
              /\ Range(req[w].unique_names) = Range(req[w].recognized_names)
              /\ NoDuplicates(listed)
              /\ Range(listed) = Range(passed)
              /\ Len(rows) = before + Len(req[w].new_check_ins)
              /\ \A k \in 1..Len(req[w].new_check_ins) :
                    rows[before + k][1] = req[w].new_check_ins[k]
              /\ Answered(w) =>
                    /\ req[w].status = 200
                    /\ Range(listed) = Range(req[w].recognized_names)
                    /\ req[w].body.new_check_ins = req[w].new_check_ins
                    /\ req[w].body.already_present = req[w].already_present

\* Two faces of one request matched the same identity.
C6_Witness ==
    \E w \in Workers :
       /\ Answered(w)
       /\ Len(req[w].recognized_names) > Cardinality(Range(req[w].recognized_names))
       /\ req[w].new_check_ins # <<>>

\* C7: the file is append-only: once it exists it stays, every step leaves
\* its earlier text as a prefix of the later, and an absent file is created
\* as the header row Name,Date,Time.
C7_LedgerIsAppendOnly ==
    /\ [](exists => IsPrefix(<<"Name", ",", "Date", ",", "Time", "\r\n">>, file))
    /\ [][/\ exists => exists' /\ IsPrefix(file, file')
          /\ ~exists /\ exists' =>
                file' = <<"Name", ",", "Date", ",", "Time", "\r\n">>]_vars

\* The process restarted on a file that held records of both days.
C7_Witness ==
    /\ up
    /\ reloaded
    /\ \A d \in Dates : \E k \in 1..Len(written) : written[k].today = d

MatchesRow(w) ==
    /\ req[w].pc = "match"
    /\ req'[w].faces = req[w].faces + 1
    /\ req'[w].best_match # <<>>

\* The names of one request that reached the response or the ledger.
NamesUsed(w) ==
    Range(req[w].unique_names) \cup Range(req[w].new_check_ins)
        \cup Range(req[w].already_present) \cup {written[k].name : k \in 1..Len(written)}

\* C9: the best match is accepted iff its distance is at most 0.40: exactly
\* 0.40 is accepted, anything above is rejected, and only the names of
\* accepted matches reach the check-in and the response.
C9_AcceptedIffWithinThreshold ==
    /\ [](NamesUsed(MainWorker) \subseteq Range(req[MainWorker].recognized_names))
    /\ [][MatchesRow(MainWorker) =>
             LET best_match == req'[MainWorker].best_match[1]
                 names == req[MainWorker].recognized_names
             IN  IF DistanceOf(best_match) <= 40
                 THEN IF "identity" \in DOMAIN best_match
                      THEN req'[MainWorker].recognized_names =
                              Append(names, NameOfPath(best_match["identity"]))
                      ELSE req'[MainWorker].raised
                 ELSE /\ req'[MainWorker].recognized_names = names
                      /\ ~req'[MainWorker].raised]_vars

\* A match at exactly the threshold was accepted.
C9_Witness ==
    /\ req[MainWorker].pc = "match"
    /\ req[MainWorker].faces = 1
    /\ req[MainWorker].best_match # <<>>
    /\ DistanceOf(req[MainWorker].best_match[1]) = 40
    /\ Len(req[MainWorker].recognized_names) = 1

\* The first of the fields in the order given that the row carries.
RECURSIVE FirstPresent(_, _)
FirstPresent(fields, row) ==
    IF fields = <<>> THEN "none"
    ELSE IF Head(fields) \in DOMAIN row THEN Head(fields)
    ELSE FirstPresent(Tail(fields), row)

\* C10: the distance is that of the first present field among distance,
\* VGG-Face_cosine, cosine, whatever the later fields hold; a row with none
\* of them is never accepted.
C10_FirstPresentDistanceField ==
    [][MatchesRow(MainWorker) =>
          LET best_match == req'[MainWorker].best_match[1]
              names == req[MainWorker].recognized_names
              field == FirstPresent(<<"distance", "VGG-Face_cosine", "cosine">>, best_match)
              accepted == req'[MainWorker].recognized_names # names
                             \/ req'[MainWorker].raised
          IN  IF field = "none" THEN ~accepted
              ELSE accepted <=> best_match[field] <= RECOGNITION_THRESHOLD]_vars

\* A row whose distance field rejects it although its cosine field would
\* accept it was rejected.
C10_Witness ==
    /\ req[MainWorker].pc = "match"
    /\ req[MainWorker].faces = 1
    /\ req[MainWorker].best_match # <<>>
    /\ {"identity", "distance", "cosine"} \subseteq DOMAIN req[MainWorker].best_match[1]
    /\ req[MainWorker].best_match[1]["distance"] > RECOGNITION_THRESHOLD
    /\ req[MainWorker].best_match[1]["cosine"] <= RECOGNITION_THRESHOLD
    /\ req[MainWorker].recognized_names = <<>>

=============================================================================
